---- MODULE Spec2Model ----
(***************************************************************************)
(* A state-machine model of src/cryptsetup/cryptsetup-pkcs11.c:            *)
(*   find_pkcs11_auto_data  - scan of the LUKS2 token slots for the one    *)
(*                            "systemd-pkcs11" record;                     *)
(*   decrypt_pkcs11_key     - unwrap of a key by a PKCS#11 token, with the *)
(*                            per-token callback pkcs11_callback and the   *)
(*                            scoped release pkcs11_callback_data_release. *)
(* One run of the model is one call of one of the two functions; the       *)
(* arguments and the environment (metadata store, key file, present        *)
(* tokens, allocation failure) are drawn in Init.                          *)
(***************************************************************************)
EXTENDS Integers, Sequences, FiniteSets, TLC

VARIABLES
    op,             \* which function this run calls: "find" or "decrypt"
    pc,             \* position of the call
    ret,            \* the function's return value (meaningful once pc = "done")
    oom,            \* environment: the allocation of this run fails (strdup / asprintf)
    \* ---- find_pkcs11_auto_data
    store,          \* environment: slot index -> what cryptsetup_get_token_as_json yields
    token,          \* loop variable
    uri, key, key_size, keyslot,    \* the locals of lines 170-173
    visited,        \* slot indexes read so far, in order
    released,       \* values freed by the _cleanup_free_ of uri and key
    out,            \* ret_uri, ret_encrypted_key, ret_encrypted_key_size, ret_keyslot
    \* ---- decrypt_pkcs11_key
    args,           \* the arguments of the call
    file,           \* environment: what key_file names
    tokens,         \* environment: the present tokens matching the URI, in search order
    search_continues, \* environment: pkcs11_find_token goes on after a failed attempt
    data,           \* struct pkcs11_callback_data
    mem,            \* contents of the buffers, by pointer
    allocs,         \* pointers allocated during the call (by this code or a collaborator)
    frees,          \* number of free() calls, by pointer
    cur,            \* index of the token the search attempts next
    last_err,       \* the search's pending result
    calls,          \* collaborator calls made so far, in order
    dout            \* ret_decrypted_key, ret_decrypted_key_size

findVars == <<store, token, uri, key, key_size, keyslot, visited, released, out>>
decVars == <<args, file, tokens, search_continues, data, mem, allocs, frees, cur, last_err, calls, dout>>
vars == <<op, pc, ret, oom, findVars, decVars>>

(***************************************************************************)
(* Bounds of the model                                                     *)
(***************************************************************************)
\* number of token slots the scan visits: sym_crypt_token_max(CRYPT_LUKS2)
TokenMax == 3
\* longest list of present matching tokens
MaxTokens == 2
\* largest key_file_offset and key_file_size drawn
MaxOffset == 2
MaxSize == 2

(***************************************************************************)
(* errno values                                                            *)
(***************************************************************************)
ENOENT == 2
EIO == 5
ENXIO == 6
EAGAIN == 11
ENOMEM == 12
EINVAL == 22
ESPIPE == 29
EPIPE == 32
ENAMETOOLONG == 36
ENOTUNIQ == 76
EMEDIUMTYPE == 124
ENOANO == 55
\* (uint64_t) -1 and (size_t) -1, the "unspecified" offset and size of
\* read_full_file_full; every offset and size drawn is below them
UINT64_MAX == -1
SIZE_MAX == -1

(***************************************************************************)
(* Values                                                                  *)
(***************************************************************************)
\* a char* : NULL or a string
NullStr == [ok |-> FALSE, s |-> ""]
Str(s) == [ok |-> TRUE, s |-> s]
\* a void* buffer with its bytes: NULL or a byte sequence
NullBuf == [ok |-> FALSE, bytes |-> <<>>]
Buf(b) == [ok |-> TRUE, bytes |-> b]

\* A JSON field as json_variant_by_key finds it: absent, present and not a
\* string, or a string.  URI strings are TLA+ strings, key strings are
\* sequences of ASCII codes (so that base64 decoding is computed).
JAbsent == [t |-> "absent", s |-> "", b |-> <<>>]
JNumber == [t |-> "number", s |-> "", b |-> <<>>]
JUri(s) == [t |-> "string", s |-> s, b |-> <<>>]
JKey(b) == [t |-> "string", s |-> "", b |-> b]

\* json_variant_by_key(v, "pkcs11-uri") / (v, "pkcs11-key")
json_variant_by_key(v, k) == IF k = "pkcs11-uri" THEN v.uri ELSE v.key
\* !w
json_variant_absent(w) == w.t = "absent"
json_variant_is_string(w) == w.t = "string"

\* pkcs11_uri_valid: the URIs p11-kit accepts
ValidUris == {"pkcs11:model=Test", "pkcs11:token=B"}
pkcs11_uri_valid(u) == u \in ValidUris

(***************************************************************************)
(* unbase64mem(p, (size_t) -1, &key, &key_size)                            *)
(***************************************************************************)
\* sextet of one base64 character (ASCII), 64 for the padding '=', -EINVAL otherwise
unbase64char(c) ==
    IF c >= 65 /\ c <= 90 THEN c - 65
    ELSE IF c >= 97 /\ c <= 122 THEN c - 71
    ELSE IF c >= 48 /\ c <= 57 THEN c + 4
    ELSE IF c = 43 THEN 62
    ELSE IF c = 47 THEN 63
    ELSE IF c = 61 THEN 64
    ELSE -EINVAL

RECURSIVE unbase64loop(_, _)
unbase64loop(p, acc) ==
    IF Len(p) = 0 THEN [r |-> 0, bytes |-> acc]
    ELSE LET a == unbase64char(p[1]) IN
    IF a < 0 THEN [r |-> a, bytes |-> <<>>]
    ELSE IF a = 64 THEN [r |-> -EINVAL, bytes |-> <<>>]
    ELSE IF Len(p) < 2 THEN [r |-> -EPIPE, bytes |-> <<>>]
    ELSE LET b == unbase64char(p[2]) IN
    IF b < 0 THEN [r |-> b, bytes |-> <<>>]
    ELSE IF b = 64 THEN [r |-> -EINVAL, bytes |-> <<>>]
    ELSE IF Len(p) < 3 THEN [r |-> -EPIPE, bytes |-> <<>>]
    ELSE LET c == unbase64char(p[3]) IN
    IF c < 0 THEN [r |-> c, bytes |-> <<>>]
    ELSE IF Len(p) < 4 THEN [r |-> -EPIPE, bytes |-> <<>>]
    ELSE LET d == unbase64char(p[4]) IN
    IF d < 0 THEN [r |-> d, bytes |-> <<>>]
    ELSE IF c = 64 THEN
        IF d # 64 \/ b % 16 # 0 THEN [r |-> -EINVAL, bytes |-> <<>>]
        ELSE IF Len(p) > 4 THEN [r |-> -ENAMETOOLONG, bytes |-> <<>>]
        ELSE [r |-> 0, bytes |-> Append(acc, a * 4 + b \div 16)]
    ELSE IF d = 64 THEN
        IF c % 4 # 0 THEN [r |-> -EINVAL, bytes |-> <<>>]
        ELSE IF Len(p) > 4 THEN [r |-> -ENAMETOOLONG, bytes |-> <<>>]
        ELSE [r |-> 0, bytes |-> acc \o <<a * 4 + b \div 16, (b % 16) * 16 + c \div 4>>]
    ELSE unbase64loop(SubSeq(p, 5, Len(p)),
                      acc \o <<a * 4 + b \div 16, (b % 16) * 16 + c \div 4, (c % 4) * 64 + d>>)

unbase64mem(p) == unbase64loop(p, <<>>)

(***************************************************************************)
(* find_pkcs11_auto_data: the metadata store                               *)
(***************************************************************************)
NoJson == [uri |-> JAbsent, key |-> JAbsent]
\* a slot whose read fails with -e
SlotError(e) == [r |-> -e, v |-> NoJson, ks |-> -1]
\* a slot holding a "systemd-pkcs11" record: its two fields and what
\* cryptsetup_get_keyslot_from_token returns for it
SlotRecord(u, k, ks) == [r |-> 0, v |-> [uri |-> u, key |-> k], ks |-> ks]

\* "QUJDRA==", "QUJD", "QUJ=" (bad padding), "QU" (cut short)
KeyABCD == <<81, 85, 74, 68, 82, 65, 61, 61>>
KeyABC == <<81, 85, 74, 68>>
KeyBadPad == <<81, 85, 74, 61>>
KeyCut == <<81, 85>>

SlotContents ==
    { SlotError(ENOENT), SlotError(EINVAL), SlotError(EMEDIUMTYPE), SlotError(EIO),
      SlotRecord(JUri("pkcs11:model=Test"), JKey(KeyABCD), 2),
      SlotRecord(JUri("pkcs11:token=B"), JKey(KeyABC), 0),
      SlotRecord(JAbsent, JKey(KeyCut), -ENOENT),
      SlotRecord(JNumber, JKey(KeyABC), 1),
      SlotRecord(JUri("http://x"), JKey(KeyABC), 1),
      SlotRecord(JUri("pkcs11:token=B"), JAbsent, -ENOENT),
      SlotRecord(JUri("pkcs11:model=Test"), JNumber, 1),
      SlotRecord(JUri("pkcs11:model=Test"), JKey(KeyBadPad), -ENOENT),
      SlotRecord(JUri("pkcs11:token=B"), JKey(KeyCut), -ENOENT),
      SlotRecord(JUri("pkcs11:model=Test"), JKey(KeyABC), -ENOENT) }

Stores == [0 .. TokenMax - 1 -> SlotContents]

\* r = cryptsetup_get_token_as_json(cd, token, "systemd-pkcs11", &v)
cryptsetup_get_token_as_json(st, t) == st[t]
\* keyslot = cryptsetup_get_keyslot_from_token(v)
cryptsetup_get_keyslot_from_token(slot) == slot.ks

(***************************************************************************)
(* find_pkcs11_auto_data: one iteration of the loop, lines 184-224.        *)
(* The result says how the iteration ends ("continue", "return" with r,    *)
(* "abort" on a failed assert) and gives the locals at that point.         *)
(***************************************************************************)
IterEnd(how, r, u, k, ksz, ks) ==
    [how |-> how, r |-> r, uri |-> u, key |-> k, key_size |-> ksz, keyslot |-> ks]

\* mutant: every failed read is skipped
SlotSkipped_AnyError(r) == r < 0

\* mutant: a malformed slot is not skipped
SlotSkipped_NoInval(r) == r \in {-ENOENT, -EMEDIUMTYPE}

\* mutant: a slot of another kind is not skipped
SlotSkipped_NoMediumType(r) == r \in {-ENOENT, -EINVAL}

\* line 188: IN_SET(r, -ENOENT, -EINVAL, -EMEDIUMTYPE)
SlotSkipped(r) == r \in {-ENOENT, -EINVAL, -EMEDIUMTYPE}

\* mutant: the uniqueness check is missing
UriCaptured_Never(u) == FALSE

\* line 193: if (uri)
UriCaptured(u) == u.ok

\* line 198: !w || !json_variant_is_string(w)
FieldUnusable(w) == json_variant_absent(w) \/ ~json_variant_is_string(w)

\* mutant: the URI is not validated
UriRejected_Never(s) == FALSE

\* line 206: if (!pkcs11_uri_valid(uri))
UriRejected(s) == ~pkcs11_uri_valid(s)

\* mutant: a keyslot that cannot be extracted does not end the scan
ScanKeyAndKeyslot_KeyslotErrorGoesOn(slot, u, k, ksz, ks) ==
    LET w == json_variant_by_key(slot.v, "pkcs11-key") IN
    IF FieldUnusable(w) THEN IterEnd("return", -EINVAL, u, k, ksz, ks)
    ELSE IF k.ok \/ ksz # 0 THEN IterEnd("abort", 0, u, k, ksz, ks)
    ELSE LET d == unbase64mem(w.b) IN
    IF d.r < 0 THEN IterEnd("return", d.r, u, k, ksz, ks)
    ELSE IF ks >= 0 THEN IterEnd("abort", 0, u, Buf(d.bytes), Len(d.bytes), ks)
    ELSE IterEnd("continue", 0, u, Buf(d.bytes), Len(d.bytes),
                 cryptsetup_get_keyslot_from_token(slot))

\* mutant: the keyslot is extracted before the key field is looked at
ScanKeyAndKeyslot_KeyslotFirst(slot, u, k, ksz, ks) ==
    LET n == cryptsetup_get_keyslot_from_token(slot)
        w == json_variant_by_key(slot.v, "pkcs11-key") IN
    IF n < 0 THEN IterEnd("return", n, u, k, ksz, n)
    ELSE IF FieldUnusable(w) THEN IterEnd("return", -EINVAL, u, k, ksz, n)
    ELSE LET d == unbase64mem(w.b) IN
    IF d.r < 0 THEN IterEnd("return", d.r, u, k, ksz, n)
    ELSE IterEnd("continue", 0, u, Buf(d.bytes), Len(d.bytes), n)

\* lines 210-224, entered with the URI u just captured
ScanKeyAndKeyslot(slot, u, k, ksz, ks) ==
    LET w == json_variant_by_key(slot.v, "pkcs11-key") IN
    IF FieldUnusable(w) THEN IterEnd("return", -EINVAL, u, k, ksz, ks)
    ELSE IF k.ok \/ ksz # 0 THEN IterEnd("abort", 0, u, k, ksz, ks)
    ELSE LET d == unbase64mem(w.b) IN
    IF d.r < 0 THEN IterEnd("return", d.r, u, k, ksz, ks)
    ELSE IF ks >= 0 THEN IterEnd("abort", 0, u, Buf(d.bytes), Len(d.bytes), ks)
    ELSE LET n == cryptsetup_get_keyslot_from_token(slot) IN
    IF n < 0 THEN IterEnd("return", n, u, Buf(d.bytes), Len(d.bytes), n)
    ELSE IterEnd("continue", 0, u, Buf(d.bytes), Len(d.bytes), n)

\* mutant: the uniqueness check comes after the URI field is read
ScanToken_UniquenessLate(slot, u, k, ksz, ks, nomem) ==
    IF SlotSkipped(slot.r) THEN IterEnd("continue", slot.r, u, k, ksz, ks)
    ELSE IF slot.r < 0 THEN IterEnd("return", slot.r, u, k, ksz, ks)
    ELSE LET w == json_variant_by_key(slot.v, "pkcs11-uri") IN
    IF FieldUnusable(w) THEN IterEnd("return", -EINVAL, u, k, ksz, ks)
    ELSE IF UriCaptured(u) THEN IterEnd("return", -ENOTUNIQ, u, k, ksz, ks)
    ELSE IF nomem THEN IterEnd("return", -ENOMEM, NullStr, k, ksz, ks)
    ELSE IF UriRejected(w.s) THEN IterEnd("return", -EINVAL, Str(w.s), k, ksz, ks)
    ELSE ScanKeyAndKeyslot(slot, Str(w.s), k, ksz, ks)

\* lines 187-224
ScanToken(slot, u, k, ksz, ks, nomem) ==
    IF SlotSkipped(slot.r) THEN IterEnd("continue", slot.r, u, k, ksz, ks)
    ELSE IF slot.r < 0 THEN IterEnd("return", slot.r, u, k, ksz, ks)
    ELSE IF UriCaptured(u) THEN IterEnd("return", -ENOTUNIQ, u, k, ksz, ks)
    ELSE LET w == json_variant_by_key(slot.v, "pkcs11-uri") IN
    IF FieldUnusable(w) THEN IterEnd("return", -EINVAL, u, k, ksz, ks)
    ELSE IF nomem THEN IterEnd("return", -ENOMEM, NullStr, k, ksz, ks)
    ELSE IF UriRejected(w.s) THEN IterEnd("return", -EINVAL, Str(w.s), k, ksz, ks)
    ELSE ScanKeyAndKeyslot(slot, Str(w.s), k, ksz, ks)

\* mutant: the key is not freed when the function is left
CleanupFree_UriOnly(u, k) == IF u.ok THEN {"uri"} ELSE {}

\* what the _cleanup_free_ of uri and key frees when the function is left
CleanupFree(u, k) ==
    (IF u.ok THEN {"uri"} ELSE {}) \cup (IF k.ok THEN {"key"} ELSE {})

OutUnwritten == [written |-> FALSE, uri |-> NullStr, key |-> NullBuf, key_size |-> 0, keyslot |-> -1]

\* mutant: *ret_encrypted_key_size is not set
OutWritten_NoKeySize(u, k, ksz, ks) ==
    [written |-> TRUE, uri |-> u, key |-> k, key_size |-> 0, keyslot |-> ks]

\* lines 233-236
OutWritten(u, k, ksz, ks) ==
    [written |-> TRUE, uri |-> u, key |-> k, key_size |-> ksz, keyslot |-> ks]

\* line 183: token < sym_crypt_token_max(CRYPT_LUKS2)
LoopGoesOn(t) == t < TokenMax

\* One iteration of the loop of find_pkcs11_auto_data (lines 183-225); a
\* return inside it leaves the function, running the cleanup of uri and key.
FindIteration ==
    /\ op = "find" /\ pc = "loop"
    /\ LoopGoesOn(token)
    /\ LET e == ScanToken(cryptsetup_get_token_as_json(store, token),
                          uri, key, key_size, keyslot, oom) IN
        /\ visited' = Append(visited, token)
        /\ uri' = e.uri /\ key' = e.key /\ key_size' = e.key_size /\ keyslot' = e.keyslot
        /\ IF e.how = "continue"
           THEN /\ token' = token + 1
                /\ UNCHANGED <<pc, ret, released>>
           ELSE IF e.how = "return"
           THEN /\ pc' = "done" /\ ret' = e.r
                /\ released' = CleanupFree(e.uri, e.key)
                /\ UNCHANGED token
           ELSE /\ pc' = "aborted"
                /\ UNCHANGED <<ret, released, token>>
    /\ UNCHANGED <<op, oom, store, out, decVars>>

\* After the loop, lines 227-237.
FindAfterLoop ==
    /\ op = "find" /\ pc = "loop"
    /\ ~LoopGoesOn(token)
    /\ pc' = "done"
    /\ IF ~uri.ok
       THEN /\ ret' = -ENXIO
            /\ released' = CleanupFree(uri, key)
            /\ UNCHANGED <<uri, key, out>>
       ELSE /\ ret' = 0
            /\ out' = OutWritten(uri, key, key_size, keyslot)
            /\ uri' = NullStr /\ key' = NullBuf
            /\ released' = CleanupFree(NullStr, NullBuf)
    /\ UNCHANGED <<op, oom, store, token, key_size, keyslot, visited, decVars>>

(***************************************************************************)
(* decrypt_pkcs11_key: pointers, buffers, the key file, the tokens         *)
(***************************************************************************)
NULL == "NULL"
\* the caller's literal key, the buffer read_full_file_full returns, the
\* bind name of asprintf, the buffer pkcs11_token_decrypt_data returns on token i
KeyDataPtr == "key_data"
EncPtr == "enc"
BindnamePtr == "bindname"
DecPtr(i) == <<"dec1", "dec2", "dec3", "dec4">>[i]
Ptrs == {KeyDataPtr, EncPtr, BindnamePtr} \cup {DecPtr(i) : i \in 1 .. 4}

\* free(p)
Free(f, p) == IF p = NULL THEN f ELSE [f EXCEPT ![p] = @ + 1]

\* what key_file names: a regular file or an AF_UNIX socket with its bytes,
\* or a path whose read fails with err
RegularFile(b) == [kind |-> "file", err |-> 0, bytes |-> b]
Socket(b) == [kind |-> "socket", err |-> 0, bytes |-> b]
Unreadable(e) == [kind |-> "file", err |-> -e, bytes |-> <<>>]
Files ==
    { RegularFile(<<10, 11, 12>>), RegularFile(<<20, 21, 22, 23, 24>>),
      Socket(<<30, 31, 32>>), Unreadable(ENOENT), Unreadable(EIO) }

\* literal wrapped keys
KeyDatas == { <<1, 2, 3>>, <<200>> }

\* A present token matching the URI: what its login, RNG, private-key lookup
\* and decrypt steps return, and the secret k its decryption depends on.
Token(l, g, f, d, k) == [login |-> l, rng |-> g, find |-> f, dec |-> d, k |-> k]
TokenKinds ==
    { Token(-ENOANO, 0, 0, 0, 1),
      Token(0, 0, -ENXIO, 0, 1), Token(0, -EIO, -ENXIO, 0, 1),
      Token(0, 0, 0, -EIO, 1),
      Token(0, 0, 0, 0, 1), Token(0, -EIO, 0, 0, 1),
      Token(0, 0, 0, 0, 2) }
TokenLists == UNION { [1 .. n -> TokenKinds] : n \in 0 .. MaxTokens }

\* the plaintext token tok unwraps from the bytes w
TokenPlaintext(tok, w) == [i \in 1 .. Len(w) |-> (w[Len(w) + 1 - i] + tok.k) % 256]

\* read_full_file_full(AT_FDCWD, key_file, offset, size,
\*                     READ_FULL_FILE_CONNECT_SOCKET, bindname, &contents, &n)
read_full_file_full(f, offset, size) ==
    IF f.err < 0 THEN [r |-> f.err, bytes |-> <<>>]
    ELSE IF f.kind = "socket" /\ offset # UINT64_MAX THEN [r |-> -ESPIPE, bytes |-> <<>>]
    ELSE LET start == IF offset = UINT64_MAX THEN 0 ELSE offset
             rest == SubSeq(f.bytes, start + 1, Len(f.bytes))
             n == IF size = SIZE_MAX \/ size > Len(rest) THEN Len(rest) ELSE size
         IN [r |-> 0, bytes |-> SubSeq(rest, 1, n)]

\* a collaborator call, as logged in calls
Call(fn, tok, r, arg) == [fn |-> fn, tok |-> tok, r |-> r, arg |-> arg]

(***************************************************************************)
(* pkcs11_callback_data_release, lines 37-42                               *)
(***************************************************************************)
\* mutant: the wrapped key is freed whatever the flag says
ReleaseFreesEncrypted_Always(d) == TRUE

\* line 40: if (data->free_encrypted_key)
ReleaseFreesEncrypted(d) == d.free_encrypted_key

pkcs11_callback_data_release(d, f) ==
    LET f1 == Free(f, d.decrypted_key) IN
    IF ReleaseFreesEncrypted(d) THEN Free(f1, d.encrypted_key) ELSE f1

(***************************************************************************)
(* pkcs11_callback, lines 44-99: one attempt, on token i of the search.    *)
(* Gives the return value, the context after it, the buffer it allocated   *)
(* (if any) and the collaborator calls it made.                            *)
(***************************************************************************)
AttemptEnd(r, d, buf, log) == [r |-> r, data |-> d, buf |-> buf, log |-> log]

\* lines 91-92: the bytes handed to pkcs11_token_decrypt_data
WrappedKeyArg(d, m) == SubSeq(m[d.encrypted_key], 1, d.encrypted_key_size)

\* mutant: the result of the login is not checked
LoginFailed_Never(r) == FALSE

\* lines 75-76: if (r < 0) return r
LoginFailed(r) == r < 0

\* mutant: a failure of the RNG step ends the attempt
RngEndsAttempt_OnFailure(r) == r < 0

\* line 81: the result of pkcs11_token_acquire_rng is cast to void
RngEndsAttempt(r) == FALSE

pkcs11_callback(tok, i, d, m) ==
    LET c1 == <<Call("pkcs11_token_login", i, tok.login, <<>>)>> IN
    IF LoginFailed(tok.login) THEN AttemptEnd(tok.login, d, <<>>, c1)
    ELSE LET c2 == Append(c1, Call("pkcs11_token_acquire_rng", i, tok.rng, <<>>))
             c3 == Append(c2, Call("pkcs11_token_find_private_key", i, tok.find, <<>>)) IN
    IF RngEndsAttempt(tok.rng) THEN AttemptEnd(tok.rng, d, <<>>, c2)
    ELSE IF tok.find < 0 THEN AttemptEnd(tok.find, d, <<>>, c3)
    ELSE LET w == WrappedKeyArg(d, m)
             c4 == Append(c3, Call("pkcs11_token_decrypt_data", i, tok.dec, w)) IN
    IF tok.dec < 0 THEN AttemptEnd(tok.dec, d, <<>>, c4)
    ELSE LET plain == TokenPlaintext(tok, w) IN
         AttemptEnd(0,
                    [d EXCEPT !.decrypted_key = DecPtr(i),
                              !.decrypted_key_size = Len(plain)],
                    <<plain>>, c4)

(***************************************************************************)
(* decrypt_pkcs11_key, lines 101-161                                       *)
(***************************************************************************)
\* lines 114-117
DataInit ==
    [encrypted_key |-> NULL, encrypted_key_size |-> 0,
     decrypted_key |-> NULL, decrypted_key_size |-> 0,
     free_encrypted_key |-> FALSE]

DoutUnwritten == [written |-> FALSE, key |-> NULL, size |-> 0]

\* lines 120-122 (the output pointers of lines 123-124 are taken as given)
ArgsAccepted(a) ==
    /\ a.friendly_name # NULL
    /\ a.pkcs11_uri # NULL
    /\ (a.key_file # NULL \/ a.key_data # NULL)

\* mutant: the key file is preferred when both sources are given
LiteralKeyGiven_UnlessFile(a) == a.key_data # NULL /\ a.key_file = NULL

\* line 128: if (key_data)
LiteralKeyGiven(a) == a.key_data # NULL

\* mutant: the size of the literal key is not taken over
DataWithLiteralKey_NoSize(d, a) ==
    [d EXCEPT !.encrypted_key = a.key_data,
              !.free_encrypted_key = FALSE]

\* lines 129-132
DataWithLiteralKey(d, a) ==
    [d EXCEPT !.encrypted_key = a.key_data,
              !.encrypted_key_size = a.key_data_size,
              !.free_encrypted_key = FALSE]

\* line 142
ReadOffsetArg(a) == IF a.key_file_offset = 0 THEN UINT64_MAX ELSE a.key_file_offset

\* mutant: a size of 0 is passed on as it is
ReadSizeArg_Raw(a) == a.key_file_size

\* line 143
ReadSizeArg(a) == IF a.key_file_size = 0 THEN SIZE_MAX ELSE a.key_file_size

\* mutant: the result of the read is not checked
ReadFailed_Never(r) == FALSE

\* line 147: if (r < 0) return r
ReadFailed(r) == r < 0

\* lines 146 and 150, after a successful read of n bytes
DataWithFileKey(d, n) ==
    [d EXCEPT !.encrypted_key = EncPtr,
              !.encrypted_key_size = n,
              !.free_encrypted_key = TRUE]

\* Lines 114-151: the context is set up, the arguments are asserted and the
\* wrapped key is taken from key_data or read from key_file.  A return in
\* here leaves the function: bindname is freed and the context released.
DecryptEnter ==
    /\ op = "decrypt" /\ pc = "start"
    /\ IF ~ArgsAccepted(args)
       THEN /\ pc' = "aborted"
            /\ UNCHANGED <<ret, data, mem, allocs, frees, calls>>
       ELSE IF LiteralKeyGiven(args)
       THEN /\ data' = DataWithLiteralKey(DataInit, args)
            /\ pc' = "search"
            /\ UNCHANGED <<ret, mem, allocs, frees, calls>>
       ELSE IF oom
       THEN /\ pc' = "done" /\ ret' = -ENOMEM
            /\ frees' = pkcs11_callback_data_release(DataInit, frees)
            /\ UNCHANGED <<data, mem, allocs, calls>>
       ELSE LET rd == read_full_file_full(file, ReadOffsetArg(args), ReadSizeArg(args)) IN
            /\ calls' = Append(calls, Call("read_full_file_full", 0, rd.r,
                                           <<ReadOffsetArg(args), ReadSizeArg(args)>>))
            /\ IF ReadFailed(rd.r)
               THEN /\ pc' = "done" /\ ret' = rd.r
                    /\ allocs' = allocs \cup {BindnamePtr}
                    /\ frees' = pkcs11_callback_data_release(DataInit, Free(frees, BindnamePtr))
                    /\ UNCHANGED <<data, mem>>
               ELSE /\ data' = DataWithFileKey(DataInit, Len(rd.bytes))
                    /\ mem' = [mem EXCEPT ![EncPtr] = rd.bytes]
                    /\ allocs' = allocs \cup {BindnamePtr, EncPtr}
                    /\ frees' = Free(frees, BindnamePtr)
                    /\ pc' = "search"
                    /\ UNCHANGED ret
    /\ UNCHANGED <<op, oom, findVars, args, file, tokens, search_continues, cur, last_err, dout>>

\* pkcs11_find_token: whether the search goes on to the next token after an
\* attempt that returned r < 0
SearchGoesOn(r, policy) == r = -EAGAIN \/ policy

\* pkcs11_find_token (line 153) calls pkcs11_callback on the next matching token.
SearchAttempt ==
    /\ op = "decrypt" /\ pc = "search"
    /\ cur <= Len(tokens)
    /\ LET e == pkcs11_callback(tokens[cur], cur, data, mem) IN
        /\ calls' = calls \o e.log
        /\ data' = e.data
        /\ IF e.buf # <<>>
           THEN /\ mem' = [mem EXCEPT ![DecPtr(cur)] = e.buf[1]]
                /\ allocs' = allocs \cup {DecPtr(cur)}
           ELSE UNCHANGED <<mem, allocs>>
        /\ IF e.r >= 0
           THEN /\ pc' = "searched" /\ last_err' = e.r /\ UNCHANGED cur
           ELSE IF SearchGoesOn(e.r, search_continues)
           THEN /\ cur' = cur + 1 /\ last_err' = e.r /\ UNCHANGED pc
           ELSE /\ pc' = "searched" /\ last_err' = e.r /\ UNCHANGED cur
    /\ UNCHANGED <<op, ret, oom, findVars, args, file, tokens, search_continues, frees, dout>>

\* pkcs11_find_token has no further matching token: it returns the last
\* attempt's error, -EAGAIN when there was none.
SearchExhausted ==
    /\ op = "decrypt" /\ pc = "search"
    /\ cur > Len(tokens)
    /\ pc' = "searched"
    /\ UNCHANGED <<op, ret, oom, findVars, args, file, tokens, search_continues,
                   data, mem, allocs, frees, cur, last_err, calls, dout>>

\* mutant: the success of the search is taken for a failure
SearchFailed_OrZero(r) == r <= 0

\* mutant: "token not present" is taken for success
SearchFailed_NotEagain(r) == r < 0 /\ r # -EAGAIN

\* line 154: if (r < 0) return r
SearchFailed(r) == r < 0

\* mutant: the pointer is handed out and kept in the context
TakeDecryptedKey_Keep(d) == d

\* line 157: TAKE_PTR(data.decrypted_key)
TakeDecryptedKey(d) == [d EXCEPT !.decrypted_key = NULL]

\* Lines 154-160 and the scoped release of the context.
DecryptReturn ==
    /\ op = "decrypt" /\ pc = "searched"
    /\ pc' = "done"
    /\ ret' = IF SearchFailed(last_err) THEN last_err ELSE 0
    /\ IF SearchFailed(last_err)
       THEN /\ frees' = pkcs11_callback_data_release(data, frees)
            /\ UNCHANGED <<data, dout>>
       ELSE /\ dout' = [written |-> TRUE, key |-> data.decrypted_key,
                        size |-> data.decrypted_key_size]
            /\ data' = TakeDecryptedKey(data)
            /\ frees' = pkcs11_callback_data_release(data', frees)
    /\ UNCHANGED <<op, oom, findVars, args, file, tokens, search_continues,
                   mem, allocs, cur, last_err, calls>>

(***************************************************************************)
(* The calls                                                               *)
(***************************************************************************)
Args(fn, u, kf, kfs, kfo, kd, kds) ==
    [friendly_name |-> fn, pkcs11_uri |-> u,
     key_file |-> kf, key_file_size |-> kfs, key_file_offset |-> kfo,
     key_data |-> kd, key_data_size |-> kds]

NoArgs == Args(NULL, NULL, NULL, 0, 0, NULL, 0)
NoFile == Unreadable(ENOENT)
EmptyMem == [p \in Ptrs |-> <<>>]
NoFrees == [p \in Ptrs |-> 0]

\* a call of find_pkcs11_auto_data on the store st
InitFind(st, nomem) ==
    /\ op = "find" /\ pc = "loop" /\ ret = 0 /\ oom = nomem
    /\ store = st /\ token = 0
    /\ uri = NullStr /\ key = NullBuf /\ key_size = 0 /\ keyslot = -1
    /\ visited = <<>> /\ released = {} /\ out = OutUnwritten
    /\ args = NoArgs /\ file = NoFile /\ tokens = <<>> /\ search_continues = FALSE
    /\ data = DataInit /\ mem = EmptyMem /\ allocs = {} /\ frees = NoFrees
    /\ cur = 1 /\ last_err = -EAGAIN /\ calls = <<>> /\ dout = DoutUnwritten

\* a call of decrypt_pkcs11_key with the arguments a; kd holds the bytes of
\* the caller's key_data buffer
InitDecrypt(a, kd, f, toks, policy, nomem) ==
    /\ op = "decrypt" /\ pc = "start" /\ ret = 0 /\ oom = nomem
    /\ store = [i \in 0 .. TokenMax - 1 |-> SlotError(ENOENT)] /\ token = 0
    /\ uri = NullStr /\ key = NullBuf /\ key_size = 0 /\ keyslot = -1
    /\ visited = <<>> /\ released = {} /\ out = OutUnwritten
    /\ args = a /\ file = f /\ tokens = toks /\ search_continues = policy
    /\ data = DataInit /\ mem = [EmptyMem EXCEPT ![KeyDataPtr] = kd]
    /\ allocs = {} /\ frees = NoFrees
    /\ cur = 1 /\ last_err = -EAGAIN /\ calls = <<>> /\ dout = DoutUnwritten

TheUri == "pkcs11:model=Test"
TheFile == "/keyfile"

Init ==
    \/ \E st \in Stores, nomem \in BOOLEAN : InitFind(st, nomem)
    \* a literal key, with or without a key file beside it
    \/ \E kd \in KeyDatas, kf \in {NULL, TheFile}, toks \in TokenLists,
          policy \in BOOLEAN, nomem \in BOOLEAN :
            InitDecrypt(Args("vol", TheUri, kf, 0, 0, KeyDataPtr, Len(kd)),
                        kd, RegularFile(<<10, 11, 12>>), toks, policy, nomem)
    \* a key file (or socket), with offset and size
    \/ \E f \in Files, kfo \in 0 .. MaxOffset, kfs \in 0 .. MaxSize, toks \in TokenLists,
          policy \in BOOLEAN, nomem \in BOOLEAN :
            InitDecrypt(Args("vol", TheUri, TheFile, kfs, kfo, NULL, 0),
                        <<>>, f, toks, policy, nomem)
    \* calls that break the contract: no key source, no friendly name, no URI
    \/ \E a \in { Args("vol", TheUri, NULL, 0, 0, NULL, 0),
                  Args(NULL, TheUri, TheFile, 0, 0, NULL, 0),
                  Args("vol", NULL, TheFile, 0, 0, NULL, 0) } :
            InitDecrypt(a, <<>>, RegularFile(<<10, 11, 12>>), <<>>, FALSE, FALSE)

Next ==
    \/ FindIteration
    \/ FindAfterLoop
    \/ DecryptEnter
    \/ SearchAttempt
    \/ SearchExhausted
    \/ DecryptReturn

Spec == Init /\ [][Next]_vars

(***************************************************************************)
(* Properties of find_pkcs11_auto_data                                     *)
(***************************************************************************)
Slots == 0 .. TokenMax - 1
\* the slots holding a record of the recognized kind
Recognized == { i \in Slots : store[i].r = 0 }
\* the slots whose read reports absent, malformed or another kind
Skippable(i) == store[i].r \in {-ENOENT, -EINVAL, -EMEDIUMTYPE}
Lowest(S) == CHOOSE i \in S : \A j \in S : i <= j
FirstRecognized == Lowest(Recognized)
SecondRecognized == Lowest(Recognized \ {FirstRecognized})
\* no slot below i fails with a fatal read error
NoFatalReadBelow(i) == \A j \in Slots : j < i => (j \in Recognized \/ Skippable(j))

UriFieldMissing(s) == s.v.uri.t # "string"
UriFieldInvalid(s) == s.v.uri.t = "string" /\ s.v.uri.s \notin ValidUris
KeyFieldGood(s) == s.v.key.t = "string" /\ unbase64mem(s.v.key.b).r = 0
\* a record with a valid string URI, a valid base64 key and an extractable keyslot
WellFormed(s) ==
    /\ s.r = 0
    /\ ~UriFieldMissing(s) /\ ~UriFieldInvalid(s)
    /\ KeyFieldGood(s)
    /\ s.ks >= 0

FindDone == op = "find" /\ pc = "done"
AllSlotsInOrder == [i \in 1 .. TokenMax |-> i - 1]

\* C1 as stated: with two or more recognized records the scan fails with
\* ENOTUNIQ, whatever their order and content (over the stores the claim
\* speaks of: every other slot absent, malformed or of another kind, and
\* the copy of the URI not failing).
C1_Original ==
    ( /\ FindDone
      /\ Cardinality(Recognized) >= 2
      /\ \A i \in Slots \ Recognized : Skippable(i)
      /\ ~oom )
    => ret = -ENOTUNIQ

\* C1 as amended: with two or more recognized records the scan always fails
\* and writes no output; it fails with ENOTUNIQ, at the second recognized
\* record and whatever that record holds, when the first recognized record is
\* well-formed, its URI is copied and no slot before the second recognized
\* record fails with a fatal read error.
C1_NotUnique ==
    (FindDone /\ Cardinality(Recognized) >= 2) =>
        /\ ret < 0
        /\ ~out.written
        /\ ( /\ WellFormed(store[FirstRecognized])
             /\ ~oom
             /\ NoFatalReadBelow(SecondRecognized) )
           => /\ ret = -ENOTUNIQ
              /\ visited[Len(visited)] = SecondRecognized

C1_Witness ==
    /\ FindDone /\ Cardinality(Recognized) >= 2
    /\ ret = -ENOTUNIQ
    /\ FirstRecognized > 0
    /\ UriFieldMissing(store[SecondRecognized])

\* C2: a store with exactly one recognized record, well-formed, in any slot,
\* every other slot absent, malformed or of another kind: the scan succeeds
\* and returns the record's URI unchanged, the base64 decoding of its key
\* field with its length, and its keyslot.
C2_SingleRecord ==
    ( /\ FindDone
      /\ Cardinality(Recognized) = 1
      /\ WellFormed(store[FirstRecognized])
      /\ \A i \in Slots \ Recognized : Skippable(i)
      /\ ~oom )
    => LET rec == store[FirstRecognized] IN
        /\ ret = 0
        /\ out.written
        /\ out.uri = Str(rec.v.uri.s)
        /\ out.key = Buf(unbase64mem(rec.v.key.b).bytes)
        /\ out.key_size = Len(unbase64mem(rec.v.key.b).bytes)
        /\ out.keyslot = rec.ks
        /\ (rec.v.key.b = KeyABCD => out.key.bytes = <<65, 66, 67, 68>>)

\* the example of the specification, found in the last slot behind slots of
\* the three skipped kinds
C2_Witness ==
    /\ FindDone /\ ret = 0
    /\ FirstRecognized = TokenMax - 1
    /\ \E i \in Slots : store[i].r = -EMEDIUMTYPE
    /\ out.uri = Str("pkcs11:model=Test")
    /\ out.key = Buf(<<65, 66, 67, 68>>) /\ out.key_size = 4
    /\ out.keyslot = 2

C8_NothingFound ==
    (op = "find" /\ \A i \in Slots : Skippable(i)) =>
        /\ pc \in {"loop", "done"}
        /\ visited = SubSeq(AllSlotsInOrder, 1, Len(visited))
        /\ pc = "loop" => Len(visited) = token
        /\ pc = "done" => (ret = -ENXIO /\ visited = AllSlotsInOrder /\ ~out.written)

C8_Witness ==
    /\ FindDone /\ ret = -ENXIO
    /\ \E i, j, k \in Slots :
        store[i].r = -ENOENT /\ store[j].r = -EINVAL /\ store[k].r = -EMEDIUMTYPE
    /\ visited = AllSlotsInOrder

(***************************************************************************)
(* Properties of decrypt_pkcs11_key                                        *)
(***************************************************************************)
DecryptDone == op = "decrypt" /\ pc = "done"
BothKeySources == args.key_data # NULL /\ args.key_file # NULL
NoKeySource == args.key_data = NULL /\ args.key_file = NULL
NamesGiven == args.friendly_name # NULL /\ args.pkcs11_uri # NULL
\* the calls logged for one collaborator function
CallsOf(fn) == { i \in 1 .. Len(calls) : calls[i].fn = fn }
TokenCalls == { i \in 1 .. Len(calls) : calls[i].tok > 0 }
TokenWorks(tok) == tok.login >= 0 /\ tok.find >= 0 /\ tok.dec >= 0

C4_LiteralPlaintext ==
    (DecryptDone /\ args.key_data # NULL) =>
        /\ (tokens # <<>> /\ TokenWorks(tokens[1])) => (ret = 0 /\ cur = 1)
        /\ (\E i \in 1 .. Len(tokens) :
                TokenWorks(tokens[i]) /\ \A j \in 1 .. i - 1 : search_continues)
           => ret = 0
        /\ ret = 0 =>
            LET last == calls[Len(calls)] IN
            /\ dout.written
            /\ last.fn = "pkcs11_token_decrypt_data" /\ last.r >= 0 /\ last.tok = cur
            /\ last.arg = mem[KeyDataPtr]
            /\ Len(last.arg) = args.key_data_size
            /\ dout.key = DecPtr(cur)
            /\ mem[dout.key] = TokenPlaintext(tokens[cur], mem[KeyDataPtr])
            /\ dout.size = Len(mem[dout.key])

C4_Witness ==
    /\ DecryptDone /\ args.key_data # NULL /\ args.key_file = NULL
    /\ ret = 0
    /\ mem[KeyDataPtr] = <<1, 2, 3>>
    /\ tokens[cur].k = 2
    /\ mem[dout.key] = <<5, 4, 3>> /\ dout.size = 3

\* C5: a literal key buffer of the caller is never freed: whenever the
\* context's wrapped key is the caller's buffer the ownership flag is false,
\* and the wrapped key is freed only with the flag true.
C5_BorrowedNeverFreed ==
    op = "decrypt" =>
        /\ frees[KeyDataPtr] = 0
        /\ data.encrypted_key = KeyDataPtr => ~data.free_encrypted_key
        /\ (data.encrypted_key # NULL /\ frees[data.encrypted_key] > 0)
           => data.free_encrypted_key
        /\ (pc = "search" /\ args.key_data # NULL) => data.encrypted_key = KeyDataPtr

C5_Witness ==
    /\ DecryptDone /\ data.encrypted_key = KeyDataPtr
    /\ ret = -EIO
    /\ CallsOf("pkcs11_token_decrypt_data") # {}
    /\ frees[KeyDataPtr] = 0

\* C6: once the call has returned, every buffer allocated during it was
\* freed exactly once, except the decrypted key handed to the caller, which
\* was not freed; nothing else was freed, nothing twice.
C6_ReleasedOnce ==
    op = "decrypt" =>
        /\ \A p \in Ptrs : frees[p] <= 1 /\ (frees[p] = 1 => p \in allocs)
        /\ pc = "done" =>
            \A p \in allocs :
                IF dout.written /\ p = dout.key THEN frees[p] = 0 ELSE frees[p] = 1
        /\ (pc = "done" /\ ret = 0) => (dout.written /\ dout.key \in allocs)
        /\ (pc = "done" /\ ret < 0) => ~dout.written

C6_Witness ==
    /\ DecryptDone /\ ret = 0
    /\ EncPtr \in allocs /\ frees[EncPtr] = 1
    /\ dout.key \in allocs /\ frees[dout.key] = 0
    /\ data.decrypted_key = NULL

\* the bytes [n, n+m) of the sequence b that exist, to the end when m = 0
BytesFrom(b, n, m) ==
    LET avail == IF n >= Len(b) THEN 0 ELSE Len(b) - n
        k == IF m = 0 \/ m > avail THEN avail ELSE m
    IN [i \in 1 .. k |-> b[n + i]]

\* C9: with a key file, the wrapped key handed to the token is the whole
\* file for offset 0 and size 0, and the bytes [N, N+M) of the file for
\* offset N and size M, an offset of 0 reading from the start and a size of
\* 0 to the end of the file.
C9_KeyFileRange ==
    (op = "decrypt" /\ args.key_data = NULL) =>
        LET want == BytesFrom(file.bytes, args.key_file_offset, args.key_file_size) IN
        /\ \A i \in CallsOf("pkcs11_token_decrypt_data") : calls[i].arg = want
        /\ pc = "search" =>
            /\ SubSeq(mem[data.encrypted_key], 1, data.encrypted_key_size) = want
            /\ (args.key_file_offset = 0 /\ args.key_file_size = 0) => want = file.bytes
            /\ (args.key_file_offset + args.key_file_size <= Len(file.bytes)
                /\ args.key_file_size > 0) => data.encrypted_key_size = args.key_file_size

C9_Witness ==
    /\ op = "decrypt" /\ args.key_data = NULL
    /\ args.key_file_offset = 1 /\ args.key_file_size = 2
    /\ file.bytes = <<20, 21, 22, 23, 24>>
    /\ \E i \in CallsOf("pkcs11_token_decrypt_data") : calls[i].arg = <<21, 22>>

\* C10: when the read of the key file or socket fails, the call returns the
\* read's error code, no token is searched or logged into, and the outputs
\* are not written.
C10_ReadFailure ==
    (op = "decrypt" /\ \E i \in CallsOf("read_full_file_full") : calls[i].r < 0) =>
        /\ pc = "done"
        /\ ret = calls[1].r
        /\ file.err < 0 => ret = file.err
        /\ TokenCalls = {} /\ cur = 1
        /\ ~dout.written

C10_Witness ==
    /\ DecryptDone /\ file.err = -EIO /\ ret = -EIO
    /\ tokens # <<>> /\ TokenWorks(tokens[1])
    /\ calls # <<>>

\* the token search was started: the arguments were accepted and the
\* wrapped key was given or read
SearchRan ==
    /\ op = "decrypt" /\ pc \in {"search", "searched", "done"}
    /\ \/ args.key_data # NULL
       \/ \E i \in CallsOf("read_full_file_full") : calls[i].r >= 0

\* C11: whenever the token search ends with an error the call returns that
\* error code: EAGAIN when no matching token is present, the failing step's
\* code after a failed attempt; the outputs are not written and no plaintext
\* is left with the caller.
C11_SearchErrorReturned ==
    (DecryptDone /\ SearchRan /\ last_err < 0) =>
        /\ ret = last_err
        /\ ~dout.written
        /\ data.decrypted_key = NULL
        /\ TokenCalls = {} => (tokens = <<>> /\ ret = -EAGAIN)
        /\ TokenCalls # {} => ret = calls[Len(calls)].r

C11_Witness ==
    /\ DecryptDone /\ SearchRan
    /\ tokens = <<>> /\ ret = -EAGAIN
    /\ EncPtr \in allocs
    /\ ~dout.written

\* the calls made on token i, in order
CallsOnToken(i) == SelectSeq(calls, LAMBDA c : c.tok = i)
\* the tokens whose attempt has ended
Attempted ==
    { i \in 1 .. Len(tokens) :
        SearchRan /\ (i < cur \/ (i = cur /\ pc \in {"searched", "done"})) }
StepOrder ==
    << "pkcs11_token_login", "pkcs11_token_acquire_rng",
       "pkcs11_token_find_private_key", "pkcs11_token_decrypt_data" >>
\* what token tok answers to step j
StepResult(tok, j) == <<tok.login, tok.rng, tok.find, tok.dec>>[j]

\* C12: in every attempt the calls are login, RNG mixing, private-key
\* lookup, decrypt, in this order; a failed login, lookup or decrypt is the
\* last call of the attempt and its code is the attempt's result; the
\* context's decrypted key is set only by a decrypt step that succeeded.
C12_AttemptOrder ==
    op = "decrypt" =>
        /\ \A a, b \in TokenCalls : a < b => calls[a].tok <= calls[b].tok
        /\ \A i \in 1 .. Len(tokens) : i \notin Attempted => CallsOnToken(i) = <<>>
        /\ \A i \in Attempted :
            LET cs == CallsOnToken(i) IN
            /\ Len(cs) \in {1, 3, 4}
            /\ \A j \in 1 .. Len(cs) :
                /\ cs[j].fn = StepOrder[j]
                /\ cs[j].r = StepResult(tokens[i], j)
                /\ (j < Len(cs) /\ j # 2) => cs[j].r >= 0
            /\ Len(cs) < 4 => cs[Len(cs)].r < 0
        /\ TokenCalls # {} =>
            LET last == calls[Len(calls)] IN
            last_err = IF last.r < 0 THEN last.r ELSE 0
        /\ data.decrypted_key # NULL =>
            \E i \in Attempted :
                /\ data.decrypted_key = DecPtr(i)
                /\ Len(CallsOnToken(i)) = 4 /\ CallsOnToken(i)[4].r >= 0
        /\ \A i \in 1 .. Len(tokens) :
            DecPtr(i) \in allocs =>
                (Len(CallsOnToken(i)) = 4 /\ CallsOnToken(i)[4].r >= 0)

\* an attempt whose RNG step failed and whose private-key lookup failed
\* next: the decrypt step is not called and the lookup's code is returned
C12_Witness ==
    /\ DecryptDone /\ cur = 1 /\ tokens # <<>>
    /\ Len(CallsOnToken(1)) = 3
    /\ CallsOnToken(1)[2].r < 0
    /\ ret = -ENXIO /\ ret = tokens[1].find
    /\ data.decrypted_key = NULL

\* the calls of an attempt with the result of the RNG step left out
WithoutRngResult(log) ==
    [j \in 1 .. Len(log) |->
        IF log[j].fn = "pkcs11_token_acquire_rng" THEN [log[j] EXCEPT !.r = 0] ELSE log[j]]

\* C13: the result of the RNG step has no effect.  For the token the search
\* attempts next, the attempt with the RNG step succeeding and the attempt
\* with it failing have the same return code, make the same lookup and
\* decrypt calls and leave the same decrypted key; and in the run itself a
\* failed RNG step is followed by the private-key lookup.
C13_RngNoEffect ==
    /\ (op = "decrypt" /\ pc = "search" /\ cur <= Len(tokens)) =>
        LET good == pkcs11_callback([tokens[cur] EXCEPT !.rng = 0], cur, data, mem)
            bad == pkcs11_callback([tokens[cur] EXCEPT !.rng = -EIO], cur, data, mem)
        IN /\ good.r = bad.r
           /\ good.data = bad.data
           /\ good.buf = bad.buf
           /\ WithoutRngResult(good.log) = WithoutRngResult(bad.log)
    /\ op = "decrypt" =>
        \A j \in CallsOf("pkcs11_token_acquire_rng") :
            /\ j < Len(calls)
            /\ calls[j + 1].fn = "pkcs11_token_find_private_key"
            /\ calls[j + 1].tok = calls[j].tok

\* a run whose RNG step failed and which returned the plaintext all the same
C13_Witness ==
    /\ DecryptDone /\ ret = 0 /\ cur = 1
    /\ \E j \in CallsOf("pkcs11_token_acquire_rng") : calls[j].r < 0
    /\ mem[dout.key] = TokenPlaintext(tokens[1], WrappedKeyArg(data, mem))

\* the values the scan captures from record s
CapturedUri(s) == Str(s.v.uri.s)
CapturedKey(s) == Buf(unbase64mem(s.v.key.b).bytes)

\* C14: the scan visits the slot indexes 0, 1, 2, ... in this order, each
\* once at most; it succeeds only with the values of the first recognized
\* record, and when it comes to a second recognized record it fails with
\* ENOTUNIQ there, whatever the fields of that record hold, its locals still
\* holding the values of the first record.
C14_FirstRecordWins ==
    op = "find" =>
        /\ Len(visited) <= TokenMax
        /\ \A j \in 1 .. Len(visited) : visited[j] = j - 1
        /\ (pc = "done" /\ ret = 0) =>
            /\ Cardinality(Recognized) = 1
            /\ out.uri = CapturedUri(store[FirstRecognized])
            /\ out.key = CapturedKey(store[FirstRecognized])
            /\ out.key_size = Len(CapturedKey(store[FirstRecognized]).bytes)
            /\ out.keyslot = store[FirstRecognized].ks
        /\ ( /\ Cardinality(Recognized) >= 2
             /\ \E j \in 1 .. Len(visited) : visited[j] = SecondRecognized ) =>
            /\ pc = "done" /\ ret = -ENOTUNIQ
            /\ visited[Len(visited)] = SecondRecognized
            /\ ~out.written
            /\ uri = CapturedUri(store[FirstRecognized])
            /\ key = CapturedKey(store[FirstRecognized])
            /\ keyslot = store[FirstRecognized].ks

\* a well-formed record in slot 0, a skipped slot, and a second record whose
\* URI field is missing: the scan ends at the second record with ENOTUNIQ
C14_Witness ==
    /\ FindDone /\ ret = -ENOTUNIQ
    /\ visited = AllSlotsInOrder
    /\ FirstRecognized = 0 /\ SecondRecognized = TokenMax - 1
    /\ UriFieldMissing(store[SecondRecognized])
    /\ uri = CapturedUri(store[0])

\* the contents of the slots of st that are not absent, malformed or of
\* another kind, in slot order
RECURSIVE CoreFrom(_, _)
CoreFrom(st, i) ==
    IF i >= TokenMax THEN <<>>
    ELSE IF st[i].r \in {-ENOENT, -EINVAL, -EMEDIUMTYPE} THEN CoreFrom(st, i + 1)
    ELSE <<st[i]>> \o CoreFrom(st, i + 1)
Core(st) == CoreFrom(st, 0)

\* the result of the scan over the slot contents s alone, entered with the
\* locals u, k, ksz, ks
RECURSIVE ScanOf(_, _, _, _, _)
ScanOf(s, u, k, ksz, ks) ==
    IF s = <<>>
    THEN IF u.ok THEN [ret |-> 0, out |-> OutWritten(u, k, ksz, ks)]
         ELSE [ret |-> -ENXIO, out |-> OutUnwritten]
    ELSE LET e == ScanToken(Head(s), u, k, ksz, ks, oom) IN
         IF e.how = "continue"
         THEN ScanOf(Tail(s), e.uri, e.key, e.key_size, e.keyslot)
         ELSE [ret |-> e.r, out |-> OutUnwritten]

\* C15: the result of the scan (the return code and the four outputs) is
\* the result of scanning the slots that are not absent, malformed or of
\* another kind, in their order: it is the same for all stores that differ
\* only by inserting, removing or moving such slots.
C15_SkippedSlotsIgnored ==
    FindDone =>
        LET core == Core(store) IN
        /\ \A j \in 1 .. Len(core) : core[j].r \notin {-ENOENT, -EINVAL, -EMEDIUMTYPE}
        /\ [ret |-> ret, out |-> out] = ScanOf(core, NullStr, NullBuf, 0, -1)

\* a record between a malformed slot and a slot of another kind is found
C15_Witness ==
    /\ FindDone /\ ret = 0
    /\ TokenMax >= 3
    /\ store[0].r = -EINVAL
    /\ WellFormed(store[1])
    /\ store[2].r = -EMEDIUMTYPE
    /\ Len(Core(store)) = 1
    /\ out.uri = CapturedUri(store[1])

\* two matching tokens, the first failing at login, the second working, and
\* a search that goes on after a failed attempt
TwoTokensFirstFailsLogin ==
    /\ op = "decrypt" /\ SearchRan
    /\ Len(tokens) = 2
    /\ tokens[1].login < 0
    /\ TokenWorks(tokens[2])
    /\ search_continues

\* C16: with two matching tokens, the first failing at login and the second
\* working, and a search that goes on after the failed attempt, the call
\* returns 0 with the plaintext the second token unwrapped from the wrapped
\* key; the first attempt made the login call only and produced no buffer.
C16_SecondTokenResult ==
    (DecryptDone /\ TwoTokensFirstFailsLogin) =>
        /\ ret = 0
        /\ dout.written
        /\ dout.key = DecPtr(2)
        /\ mem[dout.key] = TokenPlaintext(tokens[2], WrappedKeyArg(data, mem))
        /\ dout.size = Len(mem[dout.key])
        /\ DecPtr(1) \notin allocs
        /\ Len(CallsOnToken(1)) = 1
        /\ Len(CallsOnToken(2)) = 4
        /\ frees[DecPtr(2)] = 0

\* the two tokens unwrap to different plaintexts and the second one's is returned
C16_Witness ==
    /\ DecryptDone /\ TwoTokensFirstFailsLogin
    /\ ret = 0 /\ dout.key = DecPtr(2)
    /\ tokens[1].k # tokens[2].k
    /\ mem[dout.key] # TokenPlaintext(tokens[1], WrappedKeyArg(data, mem))
    /\ mem[dout.key] # <<>>

\* the key field of record s is absent, not a string or not valid base64
KeyFieldBad(s) == s.r = 0 /\ ~KeyFieldGood(s)
\* the keyslot of record s cannot be extracted
KeyslotBad(s) == s.r = 0 /\ s.ks < 0
\* the error of the first field of record s that fails, in the order URI,
\* key, keyslot; 0 when none fails
FirstFieldError(s) ==
    IF UriFieldMissing(s) \/ UriFieldInvalid(s) THEN -EINVAL
    ELSE IF s.v.key.t # "string" THEN -EINVAL
    ELSE IF unbase64mem(s.v.key.b).r < 0 THEN unbase64mem(s.v.key.b).r
    ELSE IF s.ks < 0 THEN s.ks
    ELSE 0

\* C17: a store holding a recognized record with a bad key field or a bad
\* keyslot never gives success nor ENXIO; and when the scan examines such a
\* record (it is the first recognized one, no read before it fails fatally,
\* the copy of the URI does not fail) the scan ends at this record with the
\* error of its first failing field in the order URI, key, keyslot.
C17_FieldOrder ==
    FindDone =>
        /\ (\E i \in Recognized : KeyFieldBad(store[i]) \/ KeyslotBad(store[i])) =>
            /\ ret < 0 /\ ret # -ENXIO
            /\ ~out.written
        /\ ( /\ Recognized # {}
             /\ KeyFieldBad(store[FirstRecognized]) \/ KeyslotBad(store[FirstRecognized])
             /\ NoFatalReadBelow(FirstRecognized)
             /\ ~oom ) =>
            /\ ret = FirstFieldError(store[FirstRecognized])
            /\ visited[Len(visited)] = FirstRecognized

\* a record with a good URI, a key cut short and no keyslot: the error is
\* the one of the key field, EPIPE, not the one of the keyslot
C17_Witness ==
    /\ FindDone /\ Recognized # {}
    /\ LET s == store[FirstRecognized] IN
        /\ ~UriFieldMissing(s) /\ ~UriFieldInvalid(s)
        /\ KeyFieldBad(s) /\ KeyslotBad(s)
        /\ s.ks # unbase64mem(s.v.key.b).r
        /\ ret = unbase64mem(s.v.key.b).r
    /\ ret = -EPIPE
    /\ "uri" \in released

\* the read of slot i fails with an error other than ENOENT, EINVAL, EMEDIUMTYPE
FatalRead(i) == store[i].r < 0 /\ ~Skippable(i)
\* the slots the scan has read
Visited == { visited[j] : j \in 1 .. Len(visited) }

\* C18: a slot read that fails with another error than ENOENT, EINVAL and
\* EMEDIUMTYPE ends the scan at that slot with that error, also when a
\* record was captured from an earlier slot: the slot is the last one
\* visited, no output is written, and what was captured is released.
C18_FatalReadAborts ==
    op = "find" =>
        \A i \in Visited :
            FatalRead(i) =>
                /\ pc = "done"
                /\ ret = store[i].r
                /\ visited[Len(visited)] = i
                /\ Len(visited) = i + 1
                /\ ~out.written
                /\ (uri.ok => "uri" \in released)
                /\ (key.ok => "key" \in released)

\* a well-formed record in slot 0, then a slot whose read fails with EIO
C18_Witness ==
    /\ FindDone /\ ret = -EIO
    /\ WellFormed(store[0])
    /\ FatalRead(1)
    /\ visited = <<0, 1>>
    /\ uri = CapturedUri(store[0]) /\ key = CapturedKey(store[0])
    /\ released = {"uri", "key"}

\* C19: when the scan returns an error none of the four outputs is written
\* and the URI and the key captured so far are freed; when it returns 0 the
\* four outputs are written, the URI and the key are not null and not
\* freed, the key size is the length of the key, and the keyslot is >= 0.
C19_OutputsAllOrNothing ==
    FindDone =>
        /\ ret <= 0
        /\ ret < 0 =>
            /\ out = OutUnwritten
            /\ released = (IF uri.ok THEN {"uri"} ELSE {}) \cup (IF key.ok THEN {"key"} ELSE {})
            /\ (Recognized # {} /\ NoFatalReadBelow(FirstRecognized) /\ ~oom) =>
                LET s == store[FirstRecognized] IN
                /\ ~UriFieldMissing(s) => "uri" \in released
                /\ (~UriFieldMissing(s) /\ ~UriFieldInvalid(s) /\ KeyFieldGood(s)) =>
                    "key" \in released
        /\ ret = 0 =>
            /\ out.written
            /\ out.uri.ok /\ out.key.ok
            /\ out.key_size = Len(out.key.bytes)
            /\ out.keyslot >= 0
            /\ released = {}
            /\ ~uri.ok /\ ~key.ok

\* a record whose URI and key are captured and whose keyslot cannot be
\* extracted: the scan fails, frees both and writes nothing
C19_Witness ==
    /\ FindDone /\ ret < 0 /\ Recognized # {}
    /\ KeyslotBad(store[FirstRecognized])
    /\ ret = store[FirstRecognized].ks
    /\ uri.ok /\ key.ok
    /\ released = {"uri", "key"}
    /\ out = OutUnwritten

\* C20: the asserts of lines 215, 216 and 221 never fail, for any store; at
\* the top of each iteration the URI, the key and the keyslot are all
\* captured or all uncaptured, the key size being 0 in the second case.
C20_AssertsHold ==
    op = "find" =>
        /\ pc # "aborted"
        /\ pc = "loop" =>
            /\ uri.ok <=> key.ok
            /\ uri.ok <=> keyslot >= 0
            /\ ~key.ok => key_size = 0
            /\ uri.ok =>
                /\ Recognized # {} /\ FirstRecognized < token
                /\ uri = CapturedUri(store[FirstRecognized])

\* the scan is at the top of an iteration with a record captured and a
\* further slot to read
C20_Witness ==
    /\ op = "find" /\ pc = "loop"
    /\ LoopGoesOn(token)
    /\ uri.ok /\ key.ok /\ keyslot >= 0 /\ key_size > 0
    /\ Cardinality(Recognized) >= 2

====
